---- MODULE Spec2Model ----
(***************************************************************************)
(* Model of the HDFC Investright broker adapter                            *)
(* (broker/hdfc_investright): the field mapper (mapping/transform_data.py),*)
(* the order gateway (api/order_api.py), the market data gateway           *)
(* (api/data_api.py) and the auth manager (api/auth_api.py).               *)
(*                                                                         *)
(* Every exposed function is stateless: one action of the model is one     *)
(* invocation, with its arguments and the behaviour of the outside world   *)
(* (HTTP client, symbol store, environment variables) drawn from small     *)
(* sets.  The state keeps the last invocation: which function, its         *)
(* arguments, the outside world it met, what it returned, whether it       *)
(* raised and how many HTTP requests it issued.                            *)
(*                                                                         *)
(* Python dicts are functions from key strings to values; a key the dict   *)
(* lacks is outside DOMAIN.                                                *)
(***************************************************************************)
EXTENDS Integers, Sequences, FiniteSets, TLC

VARIABLES op, arg, env, result, raised, httpCount

vars == <<op, arg, env, result, raised, httpCount>>

-----------------------------------------------------------------------------
(* Bounds *)

\* longest position / order list a broker body carries
MaxList == 2

-----------------------------------------------------------------------------
(* Python values *)

\* None, where a string is expected
None == "None"

EmptyDict == [k \in {} |-> ""]

\* dict.get(k, default)
Get(d, k, default) == IF k \in DOMAIN d THEN d[k] ELSE default

\* numeric-ish values are tagged: int n, float (n tenths), str (s, a
\* sequence of characters) and None
PyInt(n) == [t |-> "int", n |-> n, s |-> <<>>]
PyFloat(tenths) == [t |-> "float", n |-> tenths, s |-> <<>>]
PyStr(chars) == [t |-> "str", n |-> 0, s |-> chars]
PyNone == [t |-> "none", n |-> 0, s |-> <<>>]

\* bool(v)
Truthy(v) ==
    CASE v.t = "none" -> FALSE
      [] v.t = "int" -> v.n # 0
      [] v.t = "float" -> v.n # 0
      [] v.t = "str" -> v.s # <<>>

Digits == {"0", "1", "2", "3", "4", "5", "6", "7", "8", "9"}

DigitVal(c) ==
    CASE c = "0" -> 0 [] c = "1" -> 1 [] c = "2" -> 2 [] c = "3" -> 3
      [] c = "4" -> 4 [] c = "5" -> 5 [] c = "6" -> 6 [] c = "7" -> 7
      [] c = "8" -> 8 [] c = "9" -> 9

AllDigits(chars) == \A i \in 1..Len(chars) : chars[i] \in Digits

RECURSIVE DecVal(_)
DecVal(chars) ==
    IF chars = <<>> THEN 0
    ELSE 10 * DecVal(SubSeq(chars, 1, Len(chars) - 1)) + DigitVal(chars[Len(chars)])

\* int(v): an int is kept, a float is truncated, a string must be a run of
\* digits, anything else raises (ValueError / TypeError)
ToInt(v) ==
    CASE v.t = "int" -> [raised |-> FALSE, value |-> v]
      [] v.t = "float" -> [raised |-> FALSE, value |-> PyInt(v.n \div 10)]
      [] v.t = "str" ->
            IF v.s # <<>> /\ AllDigits(v.s)
            THEN [raised |-> FALSE, value |-> PyInt(DecVal(v.s))]
            ELSE [raised |-> TRUE, value |-> PyNone]
      [] v.t = "none" -> [raised |-> TRUE, value |-> PyNone]

\* position of the decimal point in a string, 0 when there is none
DotAt(chars) ==
    IF \E i \in 1..Len(chars) : chars[i] = "."
    THEN CHOOSE i \in 1..Len(chars) :
            chars[i] = "." /\ \A j \in 1..(i - 1) : chars[j] # "."
    ELSE 0

\* float(v): digits, optionally a point and at most one more digit
ToFloat(v) ==
    CASE v.t = "int" -> [raised |-> FALSE, value |-> PyFloat(10 * v.n)]
      [] v.t = "float" -> [raised |-> FALSE, value |-> v]
      [] v.t = "str" ->
            LET d == DotAt(v.s)
                whole == IF d = 0 THEN v.s ELSE SubSeq(v.s, 1, d - 1)
                frac == IF d = 0 THEN <<>> ELSE SubSeq(v.s, d + 1, Len(v.s))
            IN  IF /\ AllDigits(whole) /\ AllDigits(frac)
                   /\ Len(whole) + Len(frac) > 0
                   /\ Len(frac) <= 1
                THEN [raised |-> FALSE,
                      value |-> PyFloat(10 * DecVal(whole) + DecVal(frac))]
                ELSE [raised |-> TRUE, value |-> PyNone]
      [] v.t = "none" -> [raised |-> TRUE, value |-> PyNone]

-----------------------------------------------------------------------------
(* Symbol store (database.token_db), consumed as a black box *)

\* platform symbol -> broker symbol
BrTable == [INFY |-> "INFY-EQ", TCS |-> "TCS-EQ"]

Symbols == DOMAIN BrTable
BrSymbols == {BrTable[s] : s \in Symbols}
Exchanges == {"NSE", "BSE"}

\* get_br_symbol(symbol, exchange): the broker symbol, None when the store
\* has no row; known is the set of platform symbols the store holds
get_br_symbol(known, symbol, exchange) ==
    IF symbol \in known THEN BrTable[symbol] ELSE None

\* get_oa_symbol(brsymbol, exchange): the platform symbol, None when the
\* store has no row
get_oa_symbol(known, br_symbol, exchange) ==
    IF \E s \in known : BrTable[s] = br_symbol
    THEN CHOOSE s \in known : BrTable[s] = br_symbol
    ELSE None

\* `not x` for a string or None
Falsy(x) == x = None \/ x = ""

-----------------------------------------------------------------------------
(* Field mapper: mapping/transform_data.py *)

ORDER_TYPE_MAP ==
    [MARKET |-> "MKT", LIMIT |-> "LMT", STOP_LOSS |-> "SL",
     STOP_LOSS_LIMIT |-> "SLL"]

\* the reverse table with the two stop-loss codes exchanged
ORDER_TYPE_REVERSE_MAP_swapped ==
    [MKT |-> "MARKET", LMT |-> "LIMIT", SL |-> "STOP_LOSS_LIMIT",
     SLL |-> "STOP_LOSS"]

ORDER_TYPE_REVERSE_MAP ==
    [v \in {ORDER_TYPE_MAP[k] : k \in DOMAIN ORDER_TYPE_MAP} |->
        CHOOSE k \in DOMAIN ORDER_TYPE_MAP : ORDER_TYPE_MAP[k] = v]

PRODUCT_MAP ==
    [MIS |-> "MIS", INTRADAY |-> "MIS", CNC |-> "CNC", DELIVERY |-> "CNC",
     NRML |-> "NRML", MARGIN |-> "NRML"]

PRODUCT_REVERSE_MAP == [MIS |-> "MIS", CNC |-> "CNC", NRML |-> "NRML"]

SIDE_MAP == [BUY |-> "BUY", SELL |-> "SELL"]

VALIDITY_MAP == [DAY |-> "DAY", IOC |-> "IOC", GTC |-> "GTC"]

\* the enumerated fields with a value outside its table passed through
\* instead of defaulted
hdfc_order_enums_passthrough(order) ==
    [side |-> Get(SIDE_MAP, Get(order, "side", "BUY"),
                  Get(order, "side", "BUY")),
     order_type |-> Get(ORDER_TYPE_MAP, Get(order, "order_type", "MARKET"),
                        Get(order, "order_type", "MKT")),
     product |-> Get(PRODUCT_MAP, Get(order, "product", "MIS"),
                     Get(order, "product", "MIS")),
     validity |-> Get(VALIDITY_MAP, Get(order, "validity", "DAY"),
                      Get(order, "validity", "DAY"))]

\* the enumerated fields of the broker order (lines 78, 80-82)
hdfc_order_enums(order) ==
    [side |-> Get(SIDE_MAP, Get(order, "side", "BUY"), "BUY"),
     order_type |-> Get(ORDER_TYPE_MAP, Get(order, "order_type", "MARKET"), "MKT"),
     product |-> Get(PRODUCT_MAP, Get(order, "product", "MIS"), "MIS"),
     validity |-> Get(VALIDITY_MAP, Get(order, "validity", "DAY"), "DAY")]

\* price / stop_price copied whenever the order has the key, truthy or not
OptionalFloat_present(order, key) ==
    IF key \in DOMAIN order
    THEN [raised |-> ToFloat(order[key]).raised,
          value |-> [k \in {key} |-> ToFloat(order[key]).value]]
    ELSE [raised |-> FALSE, value |-> EmptyDict]

\* price / stop_price: absent unless truthy in the order, else float(...)
\* (lines 86-90)
OptionalFloat(order, key) ==
    IF Truthy(Get(order, key, PyNone))
    THEN [raised |-> ToFloat(order[key]).raised,
          value |-> [k \in {key} |-> ToFloat(order[key]).value]]
    ELSE [raised |-> FALSE, value |-> EmptyDict]

\* disclosed_quantity: absent unless truthy in the order, else int(...)
\* (lines 92-93)
OptionalInt(order, key) ==
    IF Truthy(Get(order, key, PyNone))
    THEN [raised |-> ToInt(order[key]).raised,
          value |-> [k \in {key} |-> ToInt(order[key]).value]]
    ELSE [raised |-> FALSE, value |-> EmptyDict]

\* the forward mapping with the except clause swallowing the failure: the
\* fields that converted are returned as the broker order
map_order_to_hdfc_partial(order, known) ==
    LET symbol == Get(order, "symbol", "")
        exchange == Get(order, "exchange", "")
        looked == get_br_symbol(known, symbol, exchange)
        br_symbol == IF Falsy(looked) THEN symbol ELSE looked
        quantity == ToInt(Get(order, "quantity", PyInt(0)))
        price == OptionalFloat(order, "price")
    IN  [raised |-> FALSE,
         value |-> (IF price.raised THEN EmptyDict ELSE price.value)
                   @@ (IF quantity.raised THEN EmptyDict
                       ELSE [quantity |-> quantity.value])
                   @@ [symbol |-> br_symbol, exchange |-> exchange]
                   @@ hdfc_order_enums(order)]

\* map_order_to_hdfc(order): the broker order, or raised (the except clause
\* logs and re-raises)
map_order_to_hdfc(order, known) ==
    LET symbol == Get(order, "symbol", "")
        exchange == Get(order, "exchange", "")
        looked == get_br_symbol(known, symbol, exchange)
        br_symbol == IF Falsy(looked) THEN symbol ELSE looked
        quantity == ToInt(Get(order, "quantity", PyInt(0)))
        price == OptionalFloat(order, "price")
        stop_price == OptionalFloat(order, "stop_price")
        disclosed == OptionalInt(order, "disclosed_quantity")
    IN  IF quantity.raised \/ price.raised \/ stop_price.raised \/ disclosed.raised
        THEN [raised |-> TRUE, value |-> EmptyDict]
        ELSE [raised |-> FALSE,
              value |-> price.value @@ stop_price.value @@ disclosed.value
                        @@ [symbol |-> br_symbol, exchange |-> exchange,
                            quantity |-> quantity.value]
                        @@ hdfc_order_enums(order)]

\* map_hdfc_order_response(hdfc_order): every .get on a dict succeeds, so
\* the except clause (return the record unchanged) is not taken for a dict
map_hdfc_order_response(hdfc_order, known) ==
    LET exchange == Get(hdfc_order, "exchange", "")
        br_symbol == Get(hdfc_order, "symbol", "")
        looked == get_oa_symbol(known, br_symbol, exchange)
        oa_symbol == IF Falsy(looked) THEN br_symbol ELSE looked
    IN  [order_id |-> Get(hdfc_order, "order_id", ""),
         symbol |-> oa_symbol,
         exchange |-> exchange,
         side |-> Get(hdfc_order, "side", ""),
         quantity |-> Get(hdfc_order, "quantity", PyInt(0)),
         price |-> Get(hdfc_order, "price", PyInt(0)),
         order_type |-> Get(ORDER_TYPE_REVERSE_MAP,
                            Get(hdfc_order, "order_type", "MKT"), "MARKET"),
         product |-> Get(PRODUCT_REVERSE_MAP,
                         Get(hdfc_order, "product", "MIS"), "MIS"),
         order_status |-> Get(hdfc_order, "status", ""),
         filled_quantity |-> Get(hdfc_order, "filled_quantity", PyInt(0)),
         pending_quantity |-> Get(hdfc_order, "pending_quantity", PyInt(0)),
         average_price |-> Get(hdfc_order, "average_price", PyInt(0)),
         timestamp |-> Get(hdfc_order, "created_at", "")]

map_hdfc_trade_response(hdfc_trade, known) ==
    LET exchange == Get(hdfc_trade, "exchange", "")
        br_symbol == Get(hdfc_trade, "symbol", "")
        looked == get_oa_symbol(known, br_symbol, exchange)
        oa_symbol == IF Falsy(looked) THEN br_symbol ELSE looked
    IN  [trade_id |-> Get(hdfc_trade, "trade_id", ""),
         order_id |-> Get(hdfc_trade, "order_id", ""),
         symbol |-> oa_symbol,
         exchange |-> exchange,
         side |-> Get(hdfc_trade, "side", ""),
         quantity |-> Get(hdfc_trade, "quantity", PyInt(0)),
         price |-> Get(hdfc_trade, "price", PyInt(0)),
         timestamp |-> Get(hdfc_trade, "executed_at", "")]

map_hdfc_position(hdfc_pos, known) ==
    LET exchange == Get(hdfc_pos, "exchange", "")
        br_symbol == Get(hdfc_pos, "symbol", "")
        looked == get_oa_symbol(known, br_symbol, exchange)
        oa_symbol == IF Falsy(looked) THEN br_symbol ELSE looked
    IN  [symbol |-> oa_symbol,
         exchange |-> exchange,
         quantity |-> Get(hdfc_pos, "quantity", PyInt(0)),
         product |-> Get(PRODUCT_REVERSE_MAP,
                         Get(hdfc_pos, "product", "MIS"), "MIS"),
         price |-> Get(hdfc_pos, "average_price", PyInt(0)),
         pnl |-> Get(hdfc_pos, "pnl", PyInt(0)),
         pnl_percentage |-> Get(hdfc_pos, "pnl_percentage", PyInt(0))]

map_hdfc_holding(hdfc_holding, known) ==
    LET exchange == Get(hdfc_holding, "exchange", "")
        br_symbol == Get(hdfc_holding, "symbol", "")
        looked == get_oa_symbol(known, br_symbol, exchange)
        oa_symbol == IF Falsy(looked) THEN br_symbol ELSE looked
    IN  [symbol |-> oa_symbol,
         exchange |-> exchange,
         quantity |-> Get(hdfc_holding, "quantity", PyInt(0)),
         price |-> Get(hdfc_holding, "average_price", PyInt(0)),
         value |-> Get(hdfc_holding, "value", PyInt(0)),
         pnl |-> Get(hdfc_holding, "pnl", PyInt(0))]

-----------------------------------------------------------------------------
(* The outside world one invocation meets *)

\* the HTTP client raises (network failure, timeout)
HttpRaise == [kind |-> "raise", message |-> "ConnectError"]

\* the HTTP client returns a response; text is "" for an empty body, json is
\* what response.json() parses from a JSON text, and response.json() raises
\* on any other text
HttpResp(code, text, json) ==
    [kind |-> "resp", status_code |-> code, text |-> text, json |-> json]

JsonText == "{...}"
GarbageText == "<html>"

StatusCodes == {200, 201, 400, 401, 500}

\* every answer of the HTTP client whose JSON body, if any, is in bodies
HttpOutcomes(bodies) ==
    {HttpRaise}
    \cup {HttpResp(c, "", EmptyDict) : c \in StatusCodes}
    \cup {HttpResp(c, GarbageText, EmptyDict) : c \in StatusCodes}
    \cup {HttpResp(c, JsonText, b) : c \in StatusCodes, b \in bodies}

\* the symbol store holds any subset of the symbols
Worlds(bodies) ==
    [known : SUBSET Symbols, http : HttpOutcomes(bodies)]

\* sequences over S of length at most n
SeqsUpTo(S, n) == UNION {[1..k -> S] : k \in 0..n}

ErrorBodies ==
    {[status |-> "error", message |-> "rejected"], [message |-> "bad request"]}

BrokerOrders ==
    {[order_id |-> "O1", symbol |-> b, exchange |-> "NSE", side |-> "SELL",
      quantity |-> PyInt(2), price |-> PyFloat(15005), order_type |-> t,
      product |-> "CNC", status |-> "open", filled_quantity |-> PyInt(1),
      pending_quantity |-> PyInt(1), average_price |-> PyFloat(15000),
      created_at |-> "2024-01-01T09:15:00"] :
        b \in {"INFY-EQ"}, t \in {"LMT", "SLL"}}

OrderBodies == BrokerOrders \cup {[order_id |-> "O1"]} \cup ErrorBodies

BrokerTrades ==
    {[trade_id |-> "T1", order_id |-> "O1", symbol |-> b, exchange |-> "NSE",
      side |-> "BUY", quantity |-> PyInt(1), price |-> PyFloat(15005),
      executed_at |-> "2024-01-01T09:16:00"] : b \in BrSymbols}

BrokerPositions ==
    {[symbol |-> b, exchange |-> x, quantity |-> PyInt(1), product |-> "MIS",
      average_price |-> PyFloat(15005), pnl |-> PyFloat(25),
      pnl_percentage |-> PyFloat(1)] : b \in BrSymbols, x \in Exchanges}

BrokerHoldings ==
    {[symbol |-> b, exchange |-> "NSE", quantity |-> PyInt(3),
      average_price |-> PyFloat(15005), value |-> PyFloat(45015),
      pnl |-> PyFloat(25)] : b \in BrSymbols}

\* bodies of a list endpoint: the list under its key, or an error body
ListBodies(key, elements) ==
    {[k \in {key} |-> xs] : xs \in SeqsUpTo(elements, MaxList)} \cup ErrorBodies

OrderIds == {"O1", "O2"}

-----------------------------------------------------------------------------
(* Order gateway: api/order_api.py *)

ErrorDict(message) == [status |-> "error", message |-> message]

\* get_api_response with one retry of a request the HTTP client failed
order_api_get_api_response_retry(method, http) ==
    IF method \notin {"GET", "POST", "PUT", "DELETE"}
    THEN [value |-> ErrorDict("Unsupported method"), calls |-> 0]
    ELSE IF http.kind = "raise"
    THEN [value |-> ErrorDict(http.message), calls |-> 2]
    ELSE IF http.text = JsonText
    THEN [value |-> http.json, calls |-> 1]
    ELSE IF http.text # ""
    THEN [value |-> ErrorDict("JSONDecodeError"), calls |-> 1]
    ELSE IF http.status_code \in {200, 201}
    THEN [value |-> [status |-> "success"], calls |-> 1]
    ELSE [value |-> EmptyDict, calls |-> 1]

\* get_api_response(endpoint, auth, method, payload): the dict it returns
\* and the number of requests it handed to the HTTP client
order_api_get_api_response(method, http) ==
    IF method \notin {"GET", "POST", "PUT", "DELETE"}
    THEN [value |-> ErrorDict("Unsupported method"), calls |-> 0]
    ELSE IF http.kind = "raise"
    THEN [value |-> ErrorDict(http.message), calls |-> 1]
    ELSE IF http.status_code \in {200, 201}
    THEN IF http.text # ""
         THEN IF http.text = JsonText
              THEN [value |-> http.json, calls |-> 1]
              ELSE [value |-> ErrorDict("JSONDecodeError"), calls |-> 1]
         ELSE [value |-> [status |-> "success"], calls |-> 1]
    ELSE IF http.text # ""
         THEN IF http.text = JsonText
              THEN [value |-> http.json, calls |-> 1]
              ELSE [value |-> ErrorDict("JSONDecodeError"), calls |-> 1]
         ELSE [value |-> EmptyDict, calls |-> 1]

\* place_order(order, auth)
place_order(order, world) ==
    LET hdfc_order == map_order_to_hdfc(order, world.known)
        response == order_api_get_api_response("POST", world.http)
    IN  IF hdfc_order.raised
        THEN [value |-> ErrorDict("mapping"), raised |-> FALSE, calls |-> 0]
        ELSE [value |-> map_hdfc_order_response(response.value, world.known),
              raised |-> FALSE, calls |-> response.calls]

\* modify_order(order_id, order, auth)
modify_order(order_id, order, world) ==
    LET hdfc_order == map_order_to_hdfc(order, world.known)
        response == order_api_get_api_response("PUT", world.http)
    IN  IF hdfc_order.raised
        THEN [value |-> ErrorDict("mapping"), raised |-> FALSE, calls |-> 0]
        ELSE [value |-> map_hdfc_order_response(response.value, world.known),
              raised |-> FALSE, calls |-> response.calls]

\* cancel_order(order_id, auth)
cancel_order(order_id, world) ==
    LET response == order_api_get_api_response("DELETE", world.http)
    IN  [value |-> response.value, raised |-> FALSE, calls |-> response.calls]

\* get_order(order_id, auth)
get_order(order_id, world) ==
    LET response == order_api_get_api_response("GET", world.http)
    IN  [value |-> map_hdfc_order_response(response.value, world.known),
         raised |-> FALSE, calls |-> response.calls]

\* get_order_book(auth)
get_order_book(world) ==
    LET response == order_api_get_api_response("GET", world.http)
        orders == Get(response.value, "orders", <<>>)
    IN  IF Get(response.value, "status", None) = "error"
        THEN [value |-> [status |-> "error", orders |-> <<>>],
              raised |-> FALSE, calls |-> response.calls]
        ELSE [value |-> [status |-> "success",
                         orders |-> [i \in 1..Len(orders) |->
                                       map_hdfc_order_response(orders[i], world.known)]],
              raised |-> FALSE, calls |-> response.calls]

\* get_trade_book(auth)
get_trade_book(world) ==
    LET response == order_api_get_api_response("GET", world.http)
        trades == Get(response.value, "trades", <<>>)
    IN  IF Get(response.value, "status", None) = "error"
        THEN [value |-> [status |-> "error", trades |-> <<>>],
              raised |-> FALSE, calls |-> response.calls]
        ELSE [value |-> [status |-> "success",
                         trades |-> [i \in 1..Len(trades) |->
                                       map_hdfc_trade_response(trades[i], world.known)]],
              raised |-> FALSE, calls |-> response.calls]

\* get_positions(auth)
get_positions(world) ==
    LET response == order_api_get_api_response("GET", world.http)
        positions == Get(response.value, "positions", <<>>)
    IN  IF Get(response.value, "status", None) = "error"
        THEN [value |-> [status |-> "error", positions |-> <<>>],
              raised |-> FALSE, calls |-> response.calls]
        ELSE [value |-> [status |-> "success",
                         positions |-> [i \in 1..Len(positions) |->
                                       map_hdfc_position(positions[i], world.known)]],
              raised |-> FALSE, calls |-> response.calls]

\* get_holdings(auth)
get_holdings(world) ==
    LET response == order_api_get_api_response("GET", world.http)
        holdings == Get(response.value, "holdings", <<>>)
    IN  IF Get(response.value, "status", None) = "error"
        THEN [value |-> [status |-> "error", holdings |-> <<>>],
              raised |-> FALSE, calls |-> response.calls]
        ELSE [value |-> [status |-> "success",
                         holdings |-> [i \in 1..Len(holdings) |->
                                       map_hdfc_holding(holdings[i], world.known)]],
              raised |-> FALSE, calls |-> response.calls]

\* the test of the scan at lines 261-262
position_matches(position, br_symbol, exchange) ==
    /\ Get(position, "tradingsymbol", None) = br_symbol
    /\ Get(position, "exchange", None) = exchange

\* get_open_position(tradingsymbol, exchange, producttype, auth)
get_open_position(tradingsymbol, exchange, producttype, world) ==
    LET positions_response == get_positions(world)
        positions == Get(positions_response.value, "positions", <<>>)
        br_symbol == get_br_symbol(world.known, tradingsymbol, exchange)
        hits == {i \in 1..Len(positions) :
                    position_matches(positions[i], br_symbol, exchange)}
    IN  IF hits # {}
        THEN [value |-> positions[CHOOSE i \in hits : \A j \in hits : i <= j],
              raised |-> FALSE, calls |-> positions_response.calls]
        ELSE [value |-> EmptyDict, raised |-> FALSE,
              calls |-> positions_response.calls]

-----------------------------------------------------------------------------
(* Market data gateway: api/data_api.py *)

\* get_api_response(endpoint, auth, method, params)
data_api_get_api_response(method, http) ==
    IF http.kind = "raise"
    THEN [value |-> ErrorDict(http.message), calls |-> 1]
    ELSE IF http.text # ""
    THEN IF http.text = JsonText
         THEN [value |-> http.json, calls |-> 1]
         ELSE [value |-> ErrorDict("JSONDecodeError"), calls |-> 1]
    ELSE [value |-> EmptyDict, calls |-> 1]

get_quotes(symbol, exchange, world) ==
    LET response == data_api_get_api_response("GET", world.http)
    IN  [value |-> response.value, raised |-> FALSE, calls |-> response.calls]

get_history(symbol, exchange, interval, world) ==
    LET response == data_api_get_api_response("GET", world.http)
    IN  [value |-> response.value, raised |-> FALSE, calls |-> response.calls]

get_depth(symbol, exchange, world) ==
    LET response == data_api_get_api_response("GET", world.http)
    IN  [value |-> response.value, raised |-> FALSE, calls |-> response.calls]

QuoteBodies == {[symbol |-> "INFY", ltp |-> PyFloat(15005)]} \cup ErrorBodies

HistoryBodies ==
    {[candles |-> cs] :
        cs \in SeqsUpTo({[open |-> PyFloat(15000), close |-> PyFloat(15005)]},
                        MaxList)} \cup ErrorBodies

DepthBodies ==
    {[bids |-> <<PyFloat(15000)>>, asks |-> <<PyFloat(15005)>>]} \cup ErrorBodies

Intervals == {"1m", "1d"}

-----------------------------------------------------------------------------
(* Auth manager: api/auth_api.py *)

AUTH_BASE_URL == "https://developer.hdfcsec.com"

\* os.getenv of the three variables: "" when unset
Configs ==
    [BROKER_API_KEY : {"", "key"}, BROKER_API_SECRET : {"", "secret"},
     BROKER_REDIRECT_URI : {"http://localhost:8000/auth/callback"}]

TokenBodies ==
    {[access_token |-> "at", refresh_token |-> "rt", expires_in |-> PyInt(3600)]}
    \cup ErrorBodies

AuthWorlds(bodies) == [config : Configs, http : HttpOutcomes(bodies)]

\* generate_auth_url(state)
generate_auth_url(state, world) ==
    IF world.config.BROKER_API_KEY = ""
    THEN [value |-> PyNone, raised |-> TRUE, calls |-> 0]
    ELSE [value |-> [url |-> <<AUTH_BASE_URL, "/oauth/authorize",
                               world.config.BROKER_API_KEY,
                               world.config.BROKER_REDIRECT_URI, "code", state,
                               "trading placement">>],
          raised |-> FALSE, calls |-> 0]

\* the token request without the test of the credentials
token_request_unchecked(world) ==
    IF world.http.kind = "raise"
    THEN [value |-> PyNone, raised |-> FALSE, calls |-> 1]
    ELSE IF world.http.status_code = 200 /\ world.http.text = JsonText
    THEN [value |-> world.http.json, raised |-> FALSE, calls |-> 1]
    ELSE [value |-> PyNone, raised |-> FALSE, calls |-> 1]

\* the POST to the token endpoint and the reading of its answer, shared by
\* get_access_token and refresh_access_token
token_request(world) ==
    IF world.config.BROKER_API_KEY = "" \/ world.config.BROKER_API_SECRET = ""
    THEN [value |-> PyNone, raised |-> FALSE, calls |-> 0]
    ELSE IF world.http.kind = "raise"
    THEN [value |-> PyNone, raised |-> FALSE, calls |-> 1]
    ELSE IF world.http.status_code = 200
    THEN IF world.http.text = JsonText
         THEN [value |-> world.http.json, raised |-> FALSE, calls |-> 1]
         ELSE [value |-> PyNone, raised |-> FALSE, calls |-> 1]
    ELSE [value |-> PyNone, raised |-> FALSE, calls |-> 1]

get_access_token(authorization_code, world) == token_request(world)

refresh_access_token(refresh_token, world) == token_request(world)

\* the probe taking every 2xx answer as valid
validate_token_any2xx(access_token, world) ==
    IF world.http.kind = "raise"
    THEN [value |-> FALSE, raised |-> FALSE, calls |-> 1]
    ELSE [value |-> world.http.status_code \in {200, 201},
          raised |-> FALSE, calls |-> 1]

\* validate_token(access_token)
validate_token(access_token, world) ==
    IF world.http.kind = "raise"
    THEN [value |-> FALSE, raised |-> FALSE, calls |-> 1]
    ELSE [value |-> world.http.status_code = 200, raised |-> FALSE, calls |-> 1]

-----------------------------------------------------------------------------
(* Inputs *)

\* a dict with key bound to one of values, or without the key
Optional(key, values) == {EmptyDict} \cup {[k \in {key} |-> v] : v \in values}

Quantities ==
    {PyInt(1), PyFloat(25), PyStr(<<"1", "2">>), PyStr(<<"a">>), PyNone}

Prices ==
    {PyInt(0), PyFloat(15005), PyStr(<<"1", ".", "5">>), PyStr(<<"x">>), PyNone}

\* orders handed to the gateway: the numeric fields vary
GatewayOrders ==
    {q @@ p @@ [symbol |-> "INFY", exchange |-> "NSE", side |-> "SELL",
                order_type |-> t, product |-> "DELIVERY", validity |-> "IOC"] :
        q \in Optional("quantity", Quantities),
        p \in Optional("price", Prices),
        t \in {"LIMIT", "STOP"}}

\* orders handed to the field mapper alone: the enumerated fields vary over
\* their tables, a value outside the table, None and absence
MapperOrders ==
    {sd @@ ot @@ pr @@ vl @@ q @@ p @@ [symbol |-> "INFY", exchange |-> "NSE"] :
        sd \in Optional("side", DOMAIN SIDE_MAP \cup {"buy", None}),
        ot \in Optional("order_type", DOMAIN ORDER_TYPE_MAP \cup {"STOP", None}),
        pr \in Optional("product", DOMAIN PRODUCT_MAP \cup {"BO", None}),
        vl \in Optional("validity", DOMAIN VALIDITY_MAP \cup {"GTD", None}),
        q \in Optional("quantity", {PyInt(1), PyStr(<<"a">>)}),
        p \in Optional("price", {PyFloat(15005)})}

\* orders handed to the field mapper alone, the numeric fields varying over
\* ints, floats, strings and None, truthy and falsy, and absence
NumericOrders ==
    {q @@ p @@ sp @@ dq
       @@ [symbol |-> "INFY", exchange |-> "NSE", side |-> "BUY",
           order_type |-> "STOP_LOSS_LIMIT", product |-> "MIS"] :
        q \in Optional("quantity",
                       {PyInt(0), PyInt(1), PyFloat(25), PyStr(<<"1", "2">>),
                        PyStr(<<"a">>), PyNone}),
        p \in Optional("price",
                       {PyNone, PyInt(0), PyFloat(0), PyStr(<<>>), PyInt(15),
                        PyFloat(15005), PyStr(<<"1", ".", "5">>),
                        PyStr(<<"0">>), PyStr(<<"x">>)}),
        sp \in Optional("stop_price",
                        {PyNone, PyInt(0), PyFloat(0), PyInt(14),
                         PyFloat(14995), PyStr(<<"x">>)}),
        dq \in Optional("disclosed_quantity",
                        {PyNone, PyInt(0), PyStr(<<>>), PyInt(5), PyFloat(5),
                         PyStr(<<"1", "2">>), PyStr(<<"1", ".", "5">>)})}

-----------------------------------------------------------------------------
(* Actions: one invocation of an exposed function *)


\* a caller invokes one function at a time: it is idle, calls, and takes
\* the result before its next call
Idle == op = "init"

Invoke(name, a, world, r) ==
    /\ op' = name
    /\ arg' = a
    /\ env' = world
    /\ result' = r.value
    /\ raised' = r.raised
    /\ httpCount' = r.calls

PlaceOrder ==
    /\ Idle
    /\ \E order \in GatewayOrders, world \in Worlds(OrderBodies) :
        Invoke("place_order", [order |-> order], world, place_order(order, world))

ModifyOrder ==
    /\ Idle
    /\ \E order_id \in OrderIds, order \in GatewayOrders, world \in Worlds(OrderBodies) :
        Invoke("modify_order", [order_id |-> order_id, order |-> order], world,
               modify_order(order_id, order, world))

CancelOrder ==
    /\ Idle
    /\ \E order_id \in OrderIds, world \in Worlds(OrderBodies) :
        Invoke("cancel_order", [order_id |-> order_id], world,
               cancel_order(order_id, world))

GetOrder ==
    /\ Idle
    /\ \E order_id \in OrderIds, world \in Worlds(OrderBodies) :
        Invoke("get_order", [order_id |-> order_id], world,
               get_order(order_id, world))

GetOrderBook ==
    /\ Idle
    /\ \E world \in Worlds(ListBodies("orders", BrokerOrders)) :
        Invoke("get_order_book", EmptyDict, world, get_order_book(world))

GetTradeBook ==
    /\ Idle
    /\ \E world \in Worlds(ListBodies("trades", BrokerTrades)) :
        Invoke("get_trade_book", EmptyDict, world, get_trade_book(world))

GetPositions ==
    /\ Idle
    /\ \E world \in Worlds(ListBodies("positions", BrokerPositions)) :
        Invoke("get_positions", EmptyDict, world, get_positions(world))

GetHoldings ==
    /\ Idle
    /\ \E world \in Worlds(ListBodies("holdings", BrokerHoldings)) :
        Invoke("get_holdings", EmptyDict, world, get_holdings(world))

GetOpenPosition ==
    /\ Idle
    /\ \E tradingsymbol \in Symbols, exchange \in Exchanges,
       world \in Worlds(ListBodies("positions", BrokerPositions)) :
        Invoke("get_open_position",
               [tradingsymbol |-> tradingsymbol, exchange |-> exchange,
                producttype |-> "MIS"],
               world, get_open_position(tradingsymbol, exchange, "MIS", world))

GetQuotes ==
    /\ Idle
    /\ \E symbol \in Symbols, exchange \in Exchanges, world \in Worlds(QuoteBodies) :
        Invoke("get_quotes", [symbol |-> symbol, exchange |-> exchange], world,
               get_quotes(symbol, exchange, world))

GetHistory ==
    /\ Idle
    /\ \E symbol \in Symbols, exchange \in Exchanges, interval \in Intervals,
       world \in Worlds(HistoryBodies) :
        Invoke("get_history",
               [symbol |-> symbol, exchange |-> exchange, interval |-> interval],
               world, get_history(symbol, exchange, interval, world))

GetDepth ==
    /\ Idle
    /\ \E symbol \in Symbols, exchange \in Exchanges, world \in Worlds(DepthBodies) :
        Invoke("get_depth", [symbol |-> symbol, exchange |-> exchange], world,
               get_depth(symbol, exchange, world))

GenerateAuthUrl ==
    /\ Idle
    /\ \E state \in {"openalgo_state", "s1"}, world \in AuthWorlds({}) :
        Invoke("generate_auth_url", [state |-> state], world,
               generate_auth_url(state, world))

GetAccessToken ==
    /\ Idle
    /\ \E code \in {"code1"}, world \in AuthWorlds(TokenBodies) :
        Invoke("get_access_token", [authorization_code |-> code], world,
               get_access_token(code, world))

RefreshAccessToken ==
    /\ Idle
    /\ \E token \in {"rt"}, world \in AuthWorlds(TokenBodies) :
        Invoke("refresh_access_token", [refresh_token |-> token], world,
               refresh_access_token(token, world))

ValidateToken ==
    /\ Idle
    /\ \E token \in {"at"}, world \in AuthWorlds({}) :
        Invoke("validate_token", [access_token |-> token], world,
               validate_token(token, world))

-----------------------------------------------------------------------------
Init ==
    /\ op = "init"
    /\ arg = EmptyDict
    /\ env = EmptyDict
    /\ result = EmptyDict
    /\ raised = FALSE
    /\ httpCount = 0

\* the caller takes the result; nothing of the invocation is kept
Return ==
    /\ ~Idle
    /\ op' = "init"
    /\ arg' = EmptyDict
    /\ env' = EmptyDict
    /\ result' = EmptyDict
    /\ raised' = FALSE
    /\ httpCount' = 0

Next ==
    \/ PlaceOrder
    \/ ModifyOrder
    \/ CancelOrder
    \/ GetOrder
    \/ GetOrderBook
    \/ GetTradeBook
    \/ GetPositions
    \/ GetHoldings
    \/ GetOpenPosition
    \/ GetQuotes
    \/ GetHistory
    \/ GetDepth
    \/ GenerateAuthUrl
    \/ GetAccessToken
    \/ RefreshAccessToken
    \/ ValidateToken
    \/ Return

Spec == Init /\ [][Next]_vars

-----------------------------------------------------------------------------
(* The field mapper as pure functions: an order is drawn, mapped to the    *)
(* broker form, and the broker form is mapped back.                        *)

InitMapper ==
    /\ op = "input"
    /\ arg \in [order : MapperOrders]
    /\ env \in [known : {{}, Symbols}]
    /\ result = EmptyDict
    /\ raised = FALSE
    /\ httpCount = 0

OrderToBroker ==
    /\ op = "input"
    /\ op' = "map_order_to_hdfc"
    /\ result' = map_order_to_hdfc(arg.order, env.known).value
    /\ raised' = map_order_to_hdfc(arg.order, env.known).raised
    /\ UNCHANGED <<arg, env, httpCount>>

BrokerOrderToPlatform ==
    /\ op = "map_order_to_hdfc"
    /\ ~raised
    /\ op' = "map_hdfc_order_response"
    /\ result' = map_hdfc_order_response(result, env.known)
    /\ UNCHANGED <<arg, env, raised, httpCount>>

NextMapper == OrderToBroker \/ BrokerOrderToPlatform

SpecMapper == InitMapper /\ [][NextMapper]_vars


\* the same two steps over the orders whose numeric fields vary
InitNumeric ==
    /\ op = "input"
    /\ arg \in [order : NumericOrders]
    /\ env \in [known : {Symbols}]
    /\ result = EmptyDict
    /\ raised = FALSE
    /\ httpCount = 0

SpecNumeric == InitNumeric /\ [][NextMapper]_vars

-----------------------------------------------------------------------------
(* Properties *)

\* what the invocation met
TransportFailed == env.http.kind = "raise"
Answered(codes) == env.http.kind = "resp" /\ env.http.status_code \in codes
EmptyBody == env.http.kind = "resp" /\ env.http.text = ""

HasStatus(r, status) == "status" \in DOMAIN r /\ r.status = status

\* the positions the broker sent, when it sent a list
FetchedPositions ==
    IF /\ Answered({200, 201})
       /\ env.http.text = JsonText
       /\ "positions" \in DOMAIN env.http.json
    THEN env.http.json.positions
    ELSE <<>>

\* the fetched positions that are the queried symbol on the queried exchange
MatchingPositions ==
    {i \in 1..Len(FetchedPositions) :
        /\ FetchedPositions[i].symbol = BrTable[arg.tradingsymbol]
        /\ FetchedPositions[i].exchange = arg.exchange}

\* result is a record of the queried symbol on the queried exchange
IsQueriedPosition(r) ==
    /\ r # EmptyDict
    /\ "symbol" \in DOMAIN r
    /\ r.symbol \in {arg.tradingsymbol, BrTable[arg.tradingsymbol]}
    /\ "exchange" \in DOMAIN r
    /\ r.exchange = arg.exchange

\* C1: get_open_position returns the matching position record, never the
\* empty structure, whenever the fetched position list holds a position
\* whose broker symbol is the Symbol Resolver's broker symbol for the queried
\* symbol and whose exchange is the queried exchange.
C1_MatchingPositionReturned ==
    (/\ op = "get_open_position"
     /\ arg.tradingsymbol \in env.known
     /\ MatchingPositions # {})
        => IsQueriedPosition(result)

\* C2: get_open_position returns the empty structure whenever no fetched
\* position matches the queried symbol and exchange, whether the Symbol
\* Resolver finds the symbol or returns no result; it never returns a
\* position of another symbol.
C2_NoMatchReturnsEmpty ==
    op = "get_open_position"
        => /\ MatchingPositions = {} => result = EmptyDict
           /\ result # EmptyDict => IsQueriedPosition(result)

\* C3: when the HTTP client raises, place_order, modify_order and get_order
\* do not raise and return a record with status = error and a message.
C3_TransportFailureIsStatusError ==
    (/\ op \in {"place_order", "modify_order", "get_order"}
     /\ TransportFailed
     /\ httpCount = 1)
        => /\ ~raised
           /\ HasStatus(result, "error")
           /\ "message" \in DOMAIN result

\* C4: when the broker answers 200 or 201 with an empty body, place, modify,
\* cancel and get each return {status: success} and do not raise.
C4_EmptyBodyIsStatusSuccess ==
    (/\ op \in {"place_order", "modify_order", "cancel_order", "get_order"}
     /\ Answered({200, 201})
     /\ EmptyBody
     /\ httpCount = 1)
        => /\ ~raised
           /\ result = [status |-> "success"]

ListOps == {"get_order_book", "get_trade_book", "get_positions", "get_holdings"}

ListKey ==
    [get_order_book |-> "orders", get_trade_book |-> "trades",
     get_positions |-> "positions", get_holdings |-> "holdings"]

\* C5: when the broker answers a list operation with a non-2xx status,
\* whatever the error body, the operation does not raise and returns
\* status = error with an empty list; status = success is returned only when
\* the broker call succeeded.
C5_ListErrorOnNon2xx ==
    op \in ListOps
        => /\ ~raised
           /\ (env.http.kind = "resp" /\ env.http.status_code \notin {200, 201})
                => /\ HasStatus(result, "error")
                   /\ result[ListKey[op]] = <<>>
           /\ HasStatus(result, "success") => Answered({200, 201})

\* C6: when the HTTP client raises, get_quotes, get_history and get_depth
\* return a record with status = error without raising, and the record of
\* get_history also holds an empty candle list.
C6_MarketDataTransportFailure ==
    (op \in {"get_quotes", "get_history", "get_depth"} /\ TransportFailed)
        => /\ ~raised
           /\ HasStatus(result, "error")
           /\ op = "get_history"
                => "candles" \in DOMAIN result /\ result.candles = <<>>

\* the failure of the one request shows in what the caller gets: an error
\* status (in status, or in order_status for a mapped order record), an
\* empty structure, None or False
FailureSurfaced ==
    CASE op \in {"get_access_token", "refresh_access_token"} -> result = PyNone
      [] op = "validate_token" -> result = FALSE
      [] op = "get_open_position" -> result = EmptyDict
      [] op \in {"place_order", "modify_order", "get_order"} ->
            result.order_status = "error"
      [] OTHER -> HasStatus(result, "error")

MalformedOrder(order) ==
    \/ "quantity" \in DOMAIN order
         /\ order.quantity \in {PyStr(<<"a">>), PyStr(<<"x">>), PyNone}
    \/ "price" \in DOMAIN order
         /\ order.price \in {PyStr(<<"a">>), PyStr(<<"x">>)}

\* C8: when the forward mapping fails on a malformed order, place_order and
\* modify_order issue no HTTP request and return status = error (the mapper
\* raised instead of handing back a partial record to send).
C8_MappingFailureSendsNothing ==
    (op \in {"place_order", "modify_order"} /\ MalformedOrder(arg.order))
        => /\ httpCount = 0
           /\ ~raised
           /\ HasStatus(result, "error")

C8_Witness ==
    /\ op = "modify_order"
    /\ "price" \in DOMAIN arg.order
    /\ arg.order.price = PyStr(<<"x">>)
    /\ Answered({200})
    /\ httpCount = 0
    /\ HasStatus(result, "error")

\* C9: order_to_broker followed by broker_order_to_platform reproduces every
\* order_type of MARKET, LIMIT, STOP_LOSS, STOP_LOSS_LIMIT and every product
\* of MIS, CNC, NRML; INTRADAY, DELIVERY, MARGIN map forward to MIS, CNC,
\* NRML and come back as that code.
C9_EnumRoundTrip ==
    LET order == arg.order
        Canonical(product) ==
            CASE product = "INTRADAY" -> "MIS"
              [] product = "DELIVERY" -> "CNC"
              [] product = "MARGIN" -> "NRML"
    IN  /\ (/\ op = "map_hdfc_order_response"
            /\ "order_type" \in DOMAIN order
            /\ order.order_type \in {"MARKET", "LIMIT", "STOP_LOSS", "STOP_LOSS_LIMIT"})
                => result.order_type = order.order_type
        /\ (/\ op = "map_hdfc_order_response"
            /\ "product" \in DOMAIN order
            /\ order.product \in {"MIS", "CNC", "NRML"})
                => result.product = order.product
        /\ (/\ op \in {"map_order_to_hdfc", "map_hdfc_order_response"}
            /\ ~raised
            /\ "product" \in DOMAIN order
            /\ order.product \in {"INTRADAY", "DELIVERY", "MARGIN"})
                => result.product = Canonical(order.product)

C9_Witness ==
    /\ op = "map_hdfc_order_response"
    /\ "order_type" \in DOMAIN arg.order
    /\ arg.order.order_type = "STOP_LOSS_LIMIT"
    /\ "product" \in DOMAIN arg.order
    /\ arg.order.product = "DELIVERY"
    /\ result.order_type = "STOP_LOSS_LIMIT"
    /\ result.product = "CNC"

\* the broker code the tables give a platform value
BrokerCode(value) ==
    CASE value = "MARKET" -> "MKT"
      [] value = "LIMIT" -> "LMT"
      [] value = "STOP_LOSS" -> "SL"
      [] value = "STOP_LOSS_LIMIT" -> "SLL"
      [] value = "INTRADAY" -> "MIS"
      [] value = "DELIVERY" -> "CNC"
      [] value = "MARGIN" -> "NRML"
      [] OTHER -> value

\* the broker value of one enumerated field: the table's, or the default
\* when the field is absent or outside the table
ExpectedEnum(order, field, table_keys, default) ==
    IF field \in DOMAIN order /\ order[field] \in table_keys
    THEN BrokerCode(order[field])
    ELSE default

\* C10: an order_type, product, side or validity that is absent or outside
\* its table becomes MKT, MIS, BUY, DAY in the broker record, without
\* raising; a field inside its table is mapped by the table whatever the
\* other fields are.
C10_EnumDefaults ==
    LET order == arg.order
    IN  op = "map_order_to_hdfc"
            => /\ ~MalformedOrder(order) => ~raised
               /\ ~raised =>
                    /\ result.order_type =
                          ExpectedEnum(order, "order_type",
                              {"MARKET", "LIMIT", "STOP_LOSS", "STOP_LOSS_LIMIT"},
                              "MKT")
                    /\ result.product =
                          ExpectedEnum(order, "product",
                              {"MIS", "INTRADAY", "CNC", "DELIVERY", "NRML", "MARGIN"},
                              "MIS")
                    /\ result.side =
                          ExpectedEnum(order, "side", {"BUY", "SELL"}, "BUY")
                    /\ result.validity =
                          ExpectedEnum(order, "validity", {"DAY", "IOC", "GTC"},
                                       "DAY")

C10_Witness ==
    /\ op = "map_order_to_hdfc"
    /\ ~raised
    /\ "side" \notin DOMAIN arg.order
    /\ "order_type" \in DOMAIN arg.order
    /\ arg.order.order_type = "STOP"
    /\ "product" \in DOMAIN arg.order
    /\ arg.order.product = "MARGIN"
    /\ "validity" \in DOMAIN arg.order
    /\ arg.order.validity = None
    /\ result.side = "BUY"
    /\ result.order_type = "MKT"
    /\ result.product = "NRML"
    /\ result.validity = "DAY"

\* the falsy values: None, zero and the empty string
FalsyValues == {PyNone, PyInt(0), PyFloat(0), PyStr(<<>>)}

PresentAndTruthy(order, key) ==
    key \in DOMAIN order /\ order[key] \notin FalsyValues

\* key is in the broker record exactly when it is present and truthy in the
\* order, and then holds a value of the given type
OptionalCopied(order, record, key, type) ==
    /\ key \in DOMAIN record <=> PresentAndTruthy(order, key)
    /\ key \in DOMAIN record => record[key].t = type

\* C11: in the broker record of order_to_broker, each of price, stop_price
\* and disclosed_quantity appears if and only if it is present and truthy in
\* the order; price and stop_price are then floating point and
\* disclosed_quantity an integer; quantity is always there as an integer,
\* 0 when the order has none.
C11_OptionalFields ==
    (op = "map_order_to_hdfc" /\ ~raised)
        => /\ OptionalCopied(arg.order, result, "price", "float")
           /\ OptionalCopied(arg.order, result, "stop_price", "float")
           /\ OptionalCopied(arg.order, result, "disclosed_quantity", "int")
           /\ "quantity" \in DOMAIN result
           /\ result.quantity.t = "int"
           /\ "quantity" \notin DOMAIN arg.order => result.quantity = PyInt(0)

C11_Witness ==
    /\ op = "map_order_to_hdfc"
    /\ ~raised
    /\ "quantity" \notin DOMAIN arg.order
    /\ result.quantity = PyInt(0)
    /\ "price" \in DOMAIN arg.order
    /\ arg.order.price = PyInt(0)
    /\ "price" \notin DOMAIN result
    /\ "stop_price" \in DOMAIN arg.order
    /\ arg.order.stop_price = PyInt(14)
    /\ "stop_price" \in DOMAIN result
    /\ result.stop_price = PyFloat(140)
    /\ "disclosed_quantity" \in DOMAIN arg.order
    /\ arg.order.disclosed_quantity = PyStr(<<"1", "2">>)
    /\ "disclosed_quantity" \in DOMAIN result
    /\ result.disclosed_quantity = PyInt(12)

\* client id and client secret are both set
Configured ==
    env.config.BROKER_API_KEY # "" /\ env.config.BROKER_API_SECRET # ""

\* C12: exchange_code_for_token and refresh never raise; each returns the
\* parsed token body only when the token endpoint answers 200, and None on
\* any other status, on a transport exception and when client id or client
\* secret is unconfigured, in which case no HTTP request is issued.
C12_TokenOrNone ==
    op \in {"get_access_token", "refresh_access_token"}
        => /\ ~raised
           /\ ~Configured => result = PyNone /\ httpCount = 0
           /\ TransportFailed => result = PyNone
           /\ (env.http.kind = "resp" /\ env.http.status_code # 200)
                => result = PyNone
           /\ result # PyNone
                => /\ Configured
                   /\ Answered({200})
                   /\ env.http.text = JsonText
                   /\ result = env.http.json
                   /\ httpCount = 1
           /\ (Configured /\ Answered({200}) /\ env.http.text = JsonText)
                => result = env.http.json

C12_Witness ==
    /\ op = "refresh_access_token"
    /\ env.config.BROKER_API_KEY = "key"
    /\ env.config.BROKER_API_SECRET = ""
    /\ Answered({200})
    /\ env.http.text = JsonText
    /\ "access_token" \in DOMAIN env.http.json
    /\ result = PyNone
    /\ httpCount = 0

\* C13: is_token_valid returns true if and only if the profile probe answers
\* 200; every other status and every transport exception gives false, and
\* the function never raises.
C13_ValidIffOk ==
    op = "validate_token"
        => /\ ~raised
           /\ result \in BOOLEAN
           /\ result <=> Answered({200})
           /\ httpCount = 1

C13_Witness ==
    /\ op = "validate_token"
    /\ TransportFailed
    /\ result = FALSE
    /\ ~raised
====
